---- MODULE Spec2Model ----
(***************************************************************************)
(* Request-logging middleware of spa-to-http (src/util/log.go).            *)
(*                                                                         *)
(* LogRequestHandler wraps an http.Handler.  For every request the         *)
(* wrapping handler runs the wrapped handler under                         *)
(* httpsnoop.CaptureMetrics, which installs hooks on the ResponseWriter,   *)
(* and afterwards logs one slog record built from the request and from    *)
(* the captured metrics.                                                   *)
(*                                                                         *)
(* Strings that the code takes apart or reassembles (request target,       *)
(* remote address, header values) are sequences of tokens, "" being <<>>.  *)
(***************************************************************************)
EXTENDS Integers, Sequences, FiniteSets, TLC

(* ------------------------------ bounds -------------------------------- *)

\* calls a wrapped handler makes on its ResponseWriter during one request
MaxOps == 2
\* bytes of the longest body chunk passed to one Write
MaxWriteLen == 2
\* records on stdout after which the host server accepts no more requests
MaxLog == 3

(* --------------------------- request inputs --------------------------- *)

\* goroutines of the host server, one per request being served
Reqs == {"r1", "r2"}

NoHeader == [k \in {} |-> <<>>]

\* request targets that start with "/" (origin-form paths)
OriginPaths == {"/", "/api/test", "/api/submit", "/api/update"}

\* addresses net.ParseIP accepts
ValidIPs == {"192.168.1.1", "127.0.0.1", "10.0.0.1", "203.0.113.7"}

\* http.Header.Get: the first value of the header, "" when it is absent
HeaderGet(h, k) == IF k \in DOMAIN h THEN h[k] ELSE <<>>

\* net/http parsing the request line's target into r.URL: an origin-form
\* target is split at "?", the authority of a CONNECT becomes the Host
ParseRequestURI(method, target) ==
    IF method = "CONNECT" /\ target[1] \notin OriginPaths
    THEN [Host |-> target[1], Path |-> "", RawQuery |-> "", ForceQuery |-> FALSE]
    ELSE [Host |-> "", Path |-> target[1],
          RawQuery |-> IF Len(target) = 3 THEN target[3] ELSE "",
          ForceQuery |-> Len(target) = 2]

\* the *http.Request the host server hands to ServeHTTP
ReadRequest(method, target, header, remote) ==
    [Method |-> method, RequestURI |-> target,
     URL |-> ParseRequestURI(method, target),
     Header |-> header, RemoteAddr |-> remote]

\* the requests of the test table, targets with a query and with a bare "?",
\* a CONNECT, requests behind a proxy, remote endpoints that hold no IP address
Requests ==
    { ReadRequest("GET", <<"/api/test">>,
          ("User-Agent" :> <<"Mozilla/5.0">>) @@ ("Referer" :> <<"https://example.com">>),
          <<"192.168.1.1", ":", "12345">>),
      ReadRequest("POST", <<"/api/submit">>, NoHeader,
          <<"127.0.0.1", ":", "8080">>),
      ReadRequest("PUT", <<"/api/update", "?", "id=123&param=value">>,
          ("User-Agent" :> <<"Go-http-client/1.1">>) @@ ("Referer" :> <<"http://localhost:3000">>),
          <<"10.0.0.1", ":", "54321">>),
      ReadRequest("GET", <<"/", "?", "page=2">>,
          ("Referer" :> <<"https://example.com">>),
          <<"@">>),
      ReadRequest("CONNECT", <<"example.com:443">>,
          ("User-Agent" :> <<"curl/8.0">>),
          <<"10.0.0.1", ":", "54321">>),
      ReadRequest("GET", <<"/api/test">>,
          ("User-Agent" :> <<"Mozilla/5.0">>) @@
          ("X-Forwarded-For" :> <<"203.0.113.7", ",", "10.0.0.1">>),
          <<"127.0.0.1", ":", "8080">>),
      ReadRequest("GET", <<"/", "?">>,
          ("X-Forwarded-For" :> <<"unknown">>),
          <<"localhost", ":", "8080">>) }

NoRequest == ReadRequest("", <<"">>, NoHeader, <<>>)

\* statuses a wrapped handler passes to WriteHeader: final statuses (an
\* informational 1xx status is not the status of a response)
StatusCodes == {200, 204, 404}

StatusOK == 200

\* the body "abc..." a wrapped handler writes from
BodyBytes == <<"a", "b", "c", "d">>

\* chunks a wrapped handler passes to Write
Payloads == { SubSeq(BodyBytes, 1, n) : n \in 0..MaxWriteLen }

\* response headers a wrapped handler sets
ContentTypes == {"text/html", "text/plain"}

\* values a wrapped handler panics with
PanicValues == {"boom", "http.ErrAbortHandler"}

\* time.Since(start) in nanoseconds; the monotonic clock never runs backwards
Elapsed == {0, 999999, 1000000, 150000000}

(* ------------------------------- state -------------------------------- *)

VARIABLES
    logger,     \* per wrapped handler: the slog.Logger built at wrap time
    pc,         \* per request: "idle", "handler" (wrapped handler running),
                \* "logging", "writing", "writing tail", "done"
    req,        \* per request: the *http.Request being served
    via,        \* per request: the wrapped handler serving it
    mtr,        \* per request: httpsnoop.Metrics and the hooks' headerWritten
    wire,       \* per request: calls the hooks forwarded to the real ResponseWriter
    direct,     \* per request: calls the same handler run makes on the writer unwrapped
    raised,     \* per request: the value the wrapped handler panicked with
    outcome,    \* per request: how ServeHTTP of the wrapping handler ended
    pending,    \* per request: the formatted line its logger is about to write
    wlock,      \* the request holding the write lock of os.Stdout, or "free"
    sink,       \* what os.Stdout is attached to: "open", or how it fails
    stdout      \* what was written to os.Stdout, in order: whole lines, or the
                \* head and the tail of a line that took two write calls

vars == <<logger, pc, req, via, mtr, wire, direct, raised, outcome, pending, wlock, sink, stdout>>

(* ------------------- construction: LogRequestHandler ------------------ *)

\* the options of the two wrapped handlers the server builds
WrapOptions == [h1 |-> [Pretty |-> TRUE], h2 |-> [Pretty |-> FALSE]]

Handlers == DOMAIN WrapOptions

\* a wrap that ignores the option and always builds the JSON logger
LogRequestHandler_alwaysJSON(opt) ==
    [handler |-> "JSONHandler", out |-> "os.Stdout"]

\* LogRequestHandler picks the logger once, when the handler is wrapped
LogRequestHandler(opt) ==
    IF opt.Pretty
    THEN [handler |-> "TextHandler", out |-> "os.Stdout"]
    ELSE [handler |-> "JSONHandler", out |-> "os.Stdout"]

(* ------------------- httpsnoop.CaptureMetrics hooks ------------------- *)

\* Metrics{Code: http.StatusOK} and headerWritten = false
NewMetrics == [Code |-> StatusOK, Written |-> 0, Duration |-> 0, headerWritten |-> FALSE]

NoCall == [op |-> "", code |-> 0, p |-> <<>>, n |-> 0, key |-> "", val |-> ""]

WriteHeaderCall(code) == [NoCall EXCEPT !.op = "WriteHeader", !.code = code]

WriteCall(p, n) == [NoCall EXCEPT !.op = "Write", !.p = p, !.n = n]

HeaderSetCall(k, v) == [NoCall EXCEPT !.op = "Header.Set", !.key = k, !.val = v]

\* a hook that keeps the last status instead of the first
HookWriteHeader_lastWins(m, code) ==
    [m EXCEPT !.Code = code, !.headerWritten = TRUE]

\* WriteHeader hook: the status is kept unless the header already counts as
\* written
HookWriteHeader(m, code) ==
    IF ~m.headerWritten
    THEN [m EXCEPT !.Code = code, !.headerWritten = TRUE]
    ELSE m

\* a hook that stores the size of the last chunk instead of adding it
HookWrite_lastChunk(m, n) ==
    [m EXCEPT !.Written = n, !.headerWritten = TRUE]

\* Write hook: the n bytes the real writer took are added, the header counts
\* as written
HookWrite(m, n) ==
    [m EXCEPT !.Written = @ + n, !.headerWritten = TRUE]

\* a hook that drops a WriteHeader once the header counts as written
ForwardWriteHeader_once(m, call) == IF m.headerWritten THEN <<>> ELSE <<call>>

\* each hook calls next with the arguments it got: the call reaches the real
\* ResponseWriter as the handler made it
ForwardWriteHeader(m, call) == <<call>>

ForwardWrite(m, call) == <<call>>

\* Header() is not hooked: the handler gets the real writer's header map
ForwardHeader(m, call) == <<call>>

\* m.Duration += time.Since(start), once the handler has returned
HookReturn(m, d) == [m EXCEPT !.Duration = @ + d]

(* ------------------------- field extraction --------------------------- *)

\* url.URL.String(): the URL reassembled from its parts
URLString(u) ==
    (IF u.Host # "" THEN <<"//", u.Host>> ELSE <<>>)
    \o (IF u.Path # "" THEN <<u.Path>> ELSE <<>>)
    \o (IF u.ForceQuery \/ u.RawQuery # "" THEN <<"?">> ELSE <<>>)
    \o (IF u.RawQuery # "" THEN <<u.RawQuery>> ELSE <<>>)

\* net.ParseIP: the address, or nil (the empty net.IP) when s is none
ParseIP(s) == IF s \in ValidIPs THEN <<s>> ELSE <<>>

\* the client address: the first address of a forwarding header when there is
\* one, else the host of the remote endpoint; nil when it does not parse
requestGetRemoteAddress(r) ==
    LET fwd == HeaderGet(r.Header, "X-Forwarded-For")
    IN  IF fwd # <<>> THEN ParseIP(fwd[1])
        ELSE IF r.RemoteAddr # <<>> THEN ParseIP(r.RemoteAddr[1])
        ELSE <<>>

\* a literal that takes r.URL.Path for the path
HTTPReqInfo_pathOnly(r, m) ==
    [method    |-> r.Method,
     path      |-> <<r.URL.Path>>,
     code      |-> m.Code,
     size      |-> m.Written,
     duration  |-> m.Duration,
     ipAddress |-> requestGetRemoteAddress(r),
     userAgent |-> HeaderGet(r.Header, "User-Agent"),
     referer   |-> HeaderGet(r.Header, "Referer")]

\* the HTTPReqInfo literal built by the wrapping handler
HTTPReqInfo(r, m) ==
    [method    |-> r.Method,
     path      |-> URLString(r.URL),
     code      |-> m.Code,
     size      |-> m.Written,
     duration  |-> m.Duration,
     ipAddress |-> requestGetRemoteAddress(r),
     userAgent |-> HeaderGet(r.Header, "User-Agent"),
     referer   |-> HeaderGet(r.Header, "Referer")]

(* ------------------------ structured emission ------------------------- *)

\* the duration logged as it is stored, in nanoseconds
Milliseconds_nanos(d) == d

\* time.Duration.Milliseconds(): whole milliseconds of a count of nanoseconds
Milliseconds(d) == d \div 1000000

\* net.IP.MarshalText, which both slog handlers use for the address: the
\* empty text for a nil IP
MarshalText(ip) == IF ip = <<>> THEN <<>> ELSE ip

Attr(k, v) == [key |-> k, value |-> v]

\* a logHTTPReqInfo that leaves the address out when there is none
logHTTPReqInfo_omitNil(ri) ==
    [level |-> "INFO", msg |-> "HTTP Request",
     attrs |-> << Attr("method", ri.method),
                  Attr("path", ri.path),
                  Attr("code", ri.code),
                  Attr("size", ri.size),
                  Attr("duration", Milliseconds(ri.duration)) >>
               \o (IF ri.ipAddress = <<>> THEN <<>>
                   ELSE << Attr("ipAddress", MarshalText(ri.ipAddress)) >>)
               \o << Attr("userAgent", ri.userAgent),
                     Attr("referer", ri.referer) >>]

\* logHTTPReqInfo: the message and the eight attributes of l.Info
logHTTPReqInfo(ri) ==
    [level |-> "INFO", msg |-> "HTTP Request",
     attrs |-> << Attr("method", ri.method),
                  Attr("path", ri.path),
                  Attr("code", ri.code),
                  Attr("size", ri.size),
                  Attr("duration", Milliseconds(ri.duration)),
                  Attr("ipAddress", MarshalText(ri.ipAddress)),
                  Attr("userAgent", ri.userAgent),
                  Attr("referer", ri.referer) >>]

\* slog's handler turning a record into one line: key=value text for the
\* TextHandler, one JSON object for the JSONHandler
Handle(l, rec) ==
    [format |-> IF l.handler = "TextHandler" THEN "text" ELSE "json",
     level |-> rec.level, msg |-> rec.msg, attrs |-> rec.attrs]

\* a wrapping handler that logs successful requests only
LogRequest_successOnly(out, i, h, l, r, m) ==
    IF m.Code >= 400 THEN out
    ELSE Append(out, [by |-> h, from |-> i, part |-> "whole",
                      line |-> Handle(l, logHTTPReqInfo(HTTPReqInfo(r, m)))])

\* the wrapping handler after CaptureMetrics has returned: one record is
\* logged through the handler's logger, here written by one write call; by
\* and from tell which handler and which request wrote the line
LogRequest(out, i, h, l, r, m) ==
    Append(out, [by |-> h, from |-> i, part |-> "whole",
                 line |-> Handle(l, logHTTPReqInfo(HTTPReqInfo(r, m)))])

Returned == [kind |-> "return", value |-> ""]

Running == [kind |-> "none", value |-> ""]

\* a wrapping handler that recovers the panic and returns
Unwind_recovered(v) == Returned

\* the wrapping handler when the wrapped handler panics with v: it has no
\* deferred call and no recover, so it unwinds with v
Unwind(v) == [kind |-> "panic", value |-> v]

\* the ways os.Stdout can fail: the descriptor is closed, or the device
\* behind it is full
SinkFailures == {"closed", "full"}

\* os.Stdout.Write on sink s: the bytes are written, or an error is returned
\* to the slog handler
StdoutWrite(s) == IF s = "open" THEN "ok" ELSE "error"

\* a logger call that panics with the error of the write
AfterLog_raises(res) ==
    IF res = "ok" THEN Returned ELSE [kind |-> "panic", value |-> "write error"]

\* l.Info has no result: the error its handler returns is dropped, and fn
\* returns after it
AfterLog(res) == Returned

\* no line is waiting to be written
NoLine == [format |-> "", level |-> "", msg |-> "", attrs |-> <<>>]

\* a write that takes the lock whether or not another write holds it
LockFree_unlocked(holder) == TRUE

\* the logger formats the whole line first and then, holding its mutex,
\* passes it to os.Stdout in one Write; os.Stdout holds its write lock until
\* every byte of that Write is out: a write starts only when none is going on
LockFree(holder) == holder = "free"

(* ------------------------------ actions ------------------------------- *)

Init ==
    /\ logger = [h \in Handlers |-> LogRequestHandler(WrapOptions[h])]
    /\ pc = [i \in Reqs |-> "idle"]
    /\ req = [i \in Reqs |-> NoRequest]
    /\ via = [i \in Reqs |-> "none"]
    /\ mtr = [i \in Reqs |-> NewMetrics]
    /\ wire = [i \in Reqs |-> <<>>]
    /\ direct = [i \in Reqs |-> <<>>]
    /\ raised = [i \in Reqs |-> "none"]
    /\ outcome = [i \in Reqs |-> Running]
    /\ pending = [i \in Reqs |-> NoLine]
    /\ wlock = "free"
    /\ sink = "open"
    /\ stdout = <<>>

\* a wrapping handler that writes the record on arrival, before it runs the
\* wrapped handler
Arrive_logsFirst(i, r, h) ==
    /\ pc[i] = "idle"
    /\ Len(stdout) < MaxLog
    /\ pc' = [pc EXCEPT ![i] = "handler"]
    /\ req' = [req EXCEPT ![i] = r]
    /\ via' = [via EXCEPT ![i] = h]
    /\ mtr' = [mtr EXCEPT ![i] = NewMetrics]
    /\ stdout' = LogRequest(stdout, i, h, logger[h], r, NewMetrics)
    /\ UNCHANGED <<sink, pending, wlock, logger, wire, direct, raised, outcome>>

\* the host server calls ServeHTTP of wrapped handler h with request r:
\* CaptureMetrics starts with fresh metrics and runs the wrapped handler
Arrive(i, r, h) ==
    /\ pc[i] = "idle"
    /\ Len(stdout) < MaxLog
    /\ pc' = [pc EXCEPT ![i] = "handler"]
    /\ req' = [req EXCEPT ![i] = r]
    /\ via' = [via EXCEPT ![i] = h]
    /\ mtr' = [mtr EXCEPT ![i] = NewMetrics]
    /\ UNCHANGED <<sink, pending, wlock, logger, wire, direct, raised, outcome, stdout>>

\* the wrapped handler calls w.WriteHeader(code)
HandlerWriteHeader(i, code) ==
    /\ pc[i] = "handler"
    /\ Len(direct[i]) < MaxOps
    /\ wire' = [wire EXCEPT ![i] = @ \o ForwardWriteHeader(mtr[i], WriteHeaderCall(code))]
    /\ direct' = [direct EXCEPT ![i] = Append(@, WriteHeaderCall(code))]
    /\ mtr' = [mtr EXCEPT ![i] = HookWriteHeader(@, code)]
    /\ UNCHANGED <<sink, pending, wlock, logger, pc, req, via, raised, outcome, stdout>>

\* the wrapped handler calls w.Write(p); the real writer takes n bytes of p
HandlerWrite(i, p, n) ==
    /\ pc[i] = "handler"
    /\ Len(direct[i]) < MaxOps
    /\ n \in 0..Len(p)
    /\ wire' = [wire EXCEPT ![i] = @ \o ForwardWrite(mtr[i], WriteCall(p, n))]
    /\ direct' = [direct EXCEPT ![i] = Append(@, WriteCall(p, n))]
    /\ mtr' = [mtr EXCEPT ![i] = HookWrite(@, n)]
    /\ UNCHANGED <<sink, pending, wlock, logger, pc, req, via, raised, outcome, stdout>>

\* the wrapped handler calls w.Header().Set(k, v)
HandlerHeaderSet(i, k, v) ==
    /\ pc[i] = "handler"
    /\ Len(direct[i]) < MaxOps
    /\ wire' = [wire EXCEPT ![i] = @ \o ForwardHeader(mtr[i], HeaderSetCall(k, v))]
    /\ direct' = [direct EXCEPT ![i] = Append(@, HeaderSetCall(k, v))]
    /\ UNCHANGED <<sink, pending, wlock, logger, pc, req, via, mtr, raised, outcome, stdout>>

\* the wrapped handler returns after d nanoseconds: CaptureMetrics returns
\* the metrics and the wrapping handler logs the request and returns
HandlerReturn(i, d) ==
    /\ pc[i] = "handler"
    /\ mtr' = [mtr EXCEPT ![i] = HookReturn(@, d)]
    /\ stdout' = IF StdoutWrite(sink) = "ok"
                 THEN LogRequest(stdout, i, via[i], logger[via[i]], req[i], mtr'[i])
                 ELSE stdout
    /\ outcome' = [outcome EXCEPT ![i] = AfterLog(StdoutWrite(sink))]
    /\ pc' = [pc EXCEPT ![i] = "done"]
    /\ UNCHANGED <<sink, pending, wlock, logger, req, via, wire, direct, raised>>

\* the wrapped handler panics with v: CaptureMetrics and the wrapping
\* handler unwind, the statements after the call do not run
HandlerPanic(i, v) ==
    /\ pc[i] = "handler"
    /\ raised' = [raised EXCEPT ![i] = v]
    /\ outcome' = [outcome EXCEPT ![i] = Unwind(v)]
    /\ pc' = [pc EXCEPT ![i] = "done"]
    /\ UNCHANGED <<sink, pending, wlock, logger, req, via, mtr, wire, direct, stdout>>

\* the wrapped handler returns after d nanoseconds: CaptureMetrics returns
\* the metrics, the wrapping handler builds the record from its own request
\* and metrics and the logger formats the line
CaptureReturn(i, d) ==
    /\ pc[i] = "handler"
    /\ mtr' = [mtr EXCEPT ![i] = HookReturn(@, d)]
    /\ pending' = [pending EXCEPT ![i] =
                       Handle(logger[via[i]], logHTTPReqInfo(HTTPReqInfo(req[i], mtr'[i])))]
    /\ pc' = [pc EXCEPT ![i] = "logging"]
    /\ UNCHANGED <<sink, logger, req, via, wire, direct, raised, outcome, wlock, stdout>>

\* the logger's Write of the line begins: it takes the write lock
WriteBegin(i) ==
    /\ pc[i] = "logging"
    /\ LockFree(wlock)
    /\ wlock' = i
    /\ pc' = [pc EXCEPT ![i] = "writing"]
    /\ UNCHANGED <<sink, logger, req, via, mtr, wire, direct, raised, outcome, pending, stdout>>

\* the first write call takes the whole line: the lock is released, the
\* wrapping handler returns
WriteWhole(i) ==
    /\ pc[i] = "writing"
    /\ StdoutWrite(sink) = "ok"
    /\ stdout' = Append(stdout, [by |-> via[i], from |-> i, part |-> "whole",
                                 line |-> pending[i]])
    /\ wlock' = "free"
    /\ outcome' = [outcome EXCEPT ![i] = Returned]
    /\ pc' = [pc EXCEPT ![i] = "done"]
    /\ UNCHANGED <<sink, logger, req, via, mtr, wire, direct, raised, pending>>

\* the first write call takes only the head of the line: the Write goes on,
\* the lock stays held
WriteHead(i) ==
    /\ pc[i] = "writing"
    /\ StdoutWrite(sink) = "ok"
    /\ stdout' = Append(stdout, [by |-> via[i], from |-> i, part |-> "head",
                                 line |-> pending[i]])
    /\ pc' = [pc EXCEPT ![i] = "writing tail"]
    /\ UNCHANGED <<sink, logger, req, via, mtr, wire, direct, raised, outcome, pending, wlock>>

\* the second write call takes the rest of the line: the lock is released,
\* the wrapping handler returns
WriteTail(i) ==
    /\ pc[i] = "writing tail"
    /\ StdoutWrite(sink) = "ok"
    /\ stdout' = Append(stdout, [by |-> via[i], from |-> i, part |-> "tail",
                                 line |-> pending[i]])
    /\ wlock' = "free"
    /\ outcome' = [outcome EXCEPT ![i] = Returned]
    /\ pc' = [pc EXCEPT ![i] = "done"]
    /\ UNCHANGED <<sink, logger, req, via, mtr, wire, direct, raised, pending>>

\* os.Stdout stops taking writes: it is closed or its device fills up
SinkFails(k) ==
    /\ sink = "open"
    /\ \A j \in Reqs : pc[j] \notin {"writing", "writing tail"}
    /\ sink' = k
    /\ UNCHANGED <<logger, pc, req, via, mtr, wire, direct, raised, outcome, pending,
                   wlock, stdout>>

\* the host server's connection loop takes the next request
NextRequest(i) ==
    /\ pc[i] = "done"
    /\ pc' = [pc EXCEPT ![i] = "idle"]
    /\ req' = [req EXCEPT ![i] = NoRequest]
    /\ via' = [via EXCEPT ![i] = "none"]
    /\ mtr' = [mtr EXCEPT ![i] = NewMetrics]
    /\ wire' = [wire EXCEPT ![i] = <<>>]
    /\ direct' = [direct EXCEPT ![i] = <<>>]
    /\ raised' = [raised EXCEPT ![i] = "none"]
    /\ outcome' = [outcome EXCEPT ![i] = Running]
    /\ pending' = [pending EXCEPT ![i] = NoLine]
    /\ UNCHANGED <<sink, wlock, logger, stdout>>

(* --------------------------- specifications --------------------------- *)

\* one request, served by either wrapped handler, any handler behaviour
Next ==
    \/ \E r \in Requests, h \in Handlers : Arrive("r1", r, h)
    \/ \E code \in StatusCodes : HandlerWriteHeader("r1", code)
    \/ \E p \in Payloads, n \in 0..MaxWriteLen : HandlerWrite("r1", p, n)
    \/ \E v \in ContentTypes : HandlerHeaderSet("r1", "Content-Type", v)
    \/ \E d \in Elapsed : HandlerReturn("r1", d)
    \/ \E v \in PanicValues : HandlerPanic("r1", v)

Spec == Init /\ [][Next]_vars

\* requests and handler behaviours of the lifetime specification
LifeRequests == { r \in Requests : r.Method \in {"POST", "PUT"} }

LifeElapsed == {1000000}

\* a connection served over its lifetime: request after request, each by
\* either wrapped handler, until stdout holds MaxLog records
NextLife ==
    \/ \E r \in LifeRequests, h \in Handlers : Arrive("r1", r, h)
    \/ HandlerWriteHeader("r1", 404)
    \/ \E d \in LifeElapsed : HandlerReturn("r1", d)
    \/ HandlerPanic("r1", "boom")
    \/ NextRequest("r1")

SpecLife == Init /\ [][NextLife]_vars

\* requests of the concurrent specification
ConcRequests == { r \in Requests : r.Method \in {"POST", "PUT"} }

\* the steps of the goroutine serving request i
Serve(i) ==
    \/ \E r \in ConcRequests, h \in Handlers : Arrive(i, r, h)
    \/ HandlerWriteHeader(i, 404)
    \/ HandlerWrite(i, <<"a">>, 1)
    \/ \E d \in LifeElapsed : CaptureReturn(i, d)
    \/ HandlerPanic(i, "boom")
    \/ WriteBegin(i)
    \/ WriteWhole(i)
    \/ WriteHead(i)
    \/ WriteTail(i)

\* the host server serves the requests in goroutines of their own, whose
\* steps interleave
NextConc == \E i \in Reqs : Serve(i)

SpecConc == Init /\ [][NextConc]_vars

\* one request served while os.Stdout may fail at any moment
NextSink ==
    \/ \E r \in LifeRequests, h \in Handlers : Arrive("r1", r, h)
    \/ \E code \in StatusCodes : HandlerWriteHeader("r1", code)
    \/ \E p \in Payloads, n \in 0..MaxWriteLen : HandlerWrite("r1", p, n)
    \/ \E d \in LifeElapsed : HandlerReturn("r1", d)
    \/ HandlerPanic("r1", "boom")
    \/ \E k \in SinkFailures : SinkFails(k)

SpecSink == Init /\ [][NextSink]_vars

(* ------------------------------ claims -------------------------------- *)

\* the lines on stdout written for request i
RecordsOf(i) == { k \in 1..Len(stdout) : stdout[k].from = i }

\* whether a line has an attribute key, and the value of that attribute
HasKey(line, key) == \E a \in 1..Len(line.attrs) : line.attrs[a].key = key

AttrValue(line, key) ==
    line.attrs[CHOOSE a \in 1..Len(line.attrs) : line.attrs[a].key = key].value

\* the bytes the real writer took over all Write calls of a run
RECURSIVE BytesWritten(_)
BytesWritten(calls) ==
    IF calls = <<>> THEN 0
    ELSE (IF Head(calls).op = "Write" THEN Head(calls).n ELSE 0)
         + BytesWritten(Tail(calls))

\* the status of the first WriteHeader call of a run, 200 without one
RECURSIVE FirstStatusSet(_)
FirstStatusSet(calls) ==
    IF calls = <<>> THEN 200
    ELSE IF Head(calls).op = "WriteHeader" THEN Head(calls).code
    ELSE FirstStatusSet(Tail(calls))

\* the first status set before any Write call, 200 without one
RECURSIVE FirstStatusBeforeBody(_)
FirstStatusBeforeBody(calls) ==
    IF calls = <<>> THEN 200
    ELSE IF Head(calls).op = "Write" THEN 200
    ELSE IF Head(calls).op = "WriteHeader" THEN Head(calls).code
    ELSE FirstStatusBeforeBody(Tail(calls))

\* C1: a request whose wrapped handler returned (whatever status it set and
\* whether or not it wrote a body) has exactly one record on stdout, and no
\* request ever has two.
C1_ExactlyOneRecord ==
    \A i \in Reqs :
        /\ Cardinality(RecordsOf(i)) <= 1
        /\ (pc[i] = "done" /\ outcome[i] = Returned) => Cardinality(RecordsOf(i)) = 1

\* a request that set an error status and wrote no body has its one record
C1_Witness ==
    \E i \in Reqs :
        /\ pc[i] = "done" /\ outcome[i] = Returned
        /\ direct[i] = <<WriteHeaderCall(404)>>
        /\ Cardinality(RecordsOf(i)) = 1

\* C2: the size of a request's record is the sum, over all Write calls of the
\* handler, of the bytes written; 0 when the handler wrote no body.
C2_SizeIsBytesWritten ==
    \A k \in 1..Len(stdout) :
        AttrValue(stdout[k].line, "size") = BytesWritten(direct[stdout[k].from])

\* two Write calls of two bytes and one byte give size 3
C2_Witness ==
    \E k \in 1..Len(stdout) :
        /\ direct[stdout[k].from] = <<WriteCall(<<"a", "b">>, 2), WriteCall(<<"a">>, 1)>>
        /\ AttrValue(stdout[k].line, "size") = 3

\* C3 as stated: the code of a request's record is the status of the
\* handler's first WriteHeader call, or 200 if it made none.
C3_CodeIsFirstStatusSet ==
    \A k \in 1..Len(stdout) :
        AttrValue(stdout[k].line, "code") = FirstStatusSet(direct[stdout[k].from])

\* C3 amended: the code of a request's record is the first (final) status the
\* handler set with WriteHeader before its first Write call, or 200 if it set
\* none before writing; later WriteHeader calls do not change it.
C3_CodeIsFirstStatusBeforeBody ==
    \A k \in 1..Len(stdout) :
        AttrValue(stdout[k].line, "code")
            = FirstStatusBeforeBody(direct[stdout[k].from])

\* a second WriteHeader does not change the code: 404 then 200 logs 404
C3_Witness ==
    \E k \in 1..Len(stdout) :
        /\ direct[stdout[k].from] = <<WriteHeaderCall(404), WriteHeaderCall(200)>>
        /\ AttrValue(stdout[k].line, "code") = 404

\* C4: the calls that reach the real ResponseWriter through the wrapper are,
\* in content and order, the calls the handler makes on it when run directly.
C4_WrapperIsTransparent ==
    \A i \in Reqs : wire[i] = direct[i]

\* a header, then a body chunk the writer took in part, reach the writer
C4_Witness ==
    \E i \in Reqs :
        /\ pc[i] = "done"
        /\ wire[i] = <<HeaderSetCall("Content-Type", "text/html"), WriteCall(<<"a", "b">>, 1)>>

\* C5: a request whose wrapped handler panicked has a record on stdout.
C5_PanicStillLogged ==
    \A i \in Reqs : outcome[i].kind = "panic" => Cardinality(RecordsOf(i)) >= 1

\* C6: when the wrapped handler panics, ServeHTTP of the wrapping handler ends
\* with that same panic value.
C6_PanicPropagates ==
    \A i \in Reqs :
        raised[i] # "none" => outcome[i] = [kind |-> "panic", value |-> raised[i]]

\* a handler that wrote a status and then aborted with http.ErrAbortHandler
C6_Witness ==
    \E i \in Reqs :
        /\ raised[i] = "http.ErrAbortHandler"
        /\ direct[i] = <<WriteHeaderCall(200)>>
        /\ outcome[i].kind = "panic"

\* the value of header k of a request, the empty string when it is absent
HeaderOrEmpty(r, k) == IF k \in DOMAIN r.Header THEN r.Header[k] ELSE <<>>

\* C7 as stated: the record's method, path, userAgent and referer are present
\* and equal the request's method, request target, User-Agent header and
\* Referer header, the empty string standing for an absent header.
C7_RequestFieldsVerbatim ==
    \A k \in 1..Len(stdout) :
        LET l == stdout[k].line
            r == req[stdout[k].from]
        IN  /\ \A key \in {"method", "path", "userAgent", "referer"} : HasKey(l, key)
            /\ AttrValue(l, "method") = r.Method
            /\ AttrValue(l, "path") = r.RequestURI
            /\ AttrValue(l, "userAgent") = HeaderOrEmpty(r, "User-Agent")
            /\ AttrValue(l, "referer") = HeaderOrEmpty(r, "Referer")

\* C7 amended: as stated for a request whose target is in origin form (a path
\* with or without a query string); for the authority-form target of a
\* CONNECT the path is "//" followed by the target.
C7_RequestFieldsFromURL ==
    \A k \in 1..Len(stdout) :
        LET l == stdout[k].line
            r == req[stdout[k].from]
        IN  /\ \A key \in {"method", "path", "userAgent", "referer"} : HasKey(l, key)
            /\ AttrValue(l, "method") = r.Method
            /\ AttrValue(l, "path") = IF r.RequestURI[1] \in OriginPaths
                                      THEN r.RequestURI
                                      ELSE <<"//">> \o r.RequestURI
            /\ AttrValue(l, "userAgent") = HeaderOrEmpty(r, "User-Agent")
            /\ AttrValue(l, "referer") = HeaderOrEmpty(r, "Referer")

\* a target with a query string and no User-Agent header: the path keeps the
\* query, userAgent is present and empty
C7_Witness ==
    \E k \in 1..Len(stdout) :
        LET l == stdout[k].line
            r == req[stdout[k].from]
        IN  /\ r.RequestURI = <<"/", "?", "page=2">>
            /\ "User-Agent" \notin DOMAIN r.Header
            /\ AttrValue(l, "path") = <<"/", "?", "page=2">>
            /\ HasKey(l, "userAgent") /\ AttrValue(l, "userAgent") = <<>>
            /\ AttrValue(l, "referer") = <<"https://example.com">>

\* the address the record is to show is no IP address
AddressUnparseable(r) ==
    IF "X-Forwarded-For" \in DOMAIN r.Header
    THEN r.Header["X-Forwarded-For"][1] \notin ValidIPs
    ELSE r.RemoteAddr = <<>> \/ r.RemoteAddr[1] \notin ValidIPs

RecordKeys ==
    <<"method", "path", "code", "size", "duration", "ipAddress", "userAgent", "referer">>

\* C10: each wrapped handler keeps the logger its Pretty option selected, and
\* every line on stdout is in the format of the handler that wrote it (text
\* for Pretty, JSON otherwise), with the message "HTTP Request" and the same
\* eight attributes.
C10_FormatFixedAtWrapTime ==
    /\ \A h \in Handlers :
        logger[h].handler = IF WrapOptions[h].Pretty THEN "TextHandler" ELSE "JSONHandler"
    /\ \A k \in 1..Len(stdout) :
        LET l == stdout[k].line
        IN  /\ l.format = IF WrapOptions[stdout[k].by].Pretty THEN "text" ELSE "json"
            /\ l.msg = "HTTP Request"
            /\ [a \in 1..Len(l.attrs) |-> l.attrs[a].key] = RecordKeys

\* the Pretty handler, the JSON handler and the Pretty handler again have
\* each written a line in their own format
C10_Witness ==
    /\ Len(stdout) = 3
    /\ stdout[1].by = "h1" /\ stdout[1].line.format = "text"
    /\ stdout[2].by = "h2" /\ stdout[2].line.format = "json"
    /\ stdout[3].by = "h1" /\ stdout[3].line.format = "text"

\* the line the wrapping handler builds for request i from that request and
\* its own metrics alone
OwnLine(i) == Handle(logger[via[i]], logHTTPReqInfo(HTTPReqInfo(req[i], mtr[i])))

\* C11: with requests served concurrently, every line on stdout is in one
\* piece (whole, or a head directly followed by its own tail, the last head
\* still being written by the holder of the write lock), and every line is
\* the line of one single request, written by the handler that served it.
C11_LinesWholeAndOfOneRequest ==
    \A k \in 1..Len(stdout) :
        LET e == stdout[k]
        IN  /\ e.by = via[e.from]
            /\ e.line = OwnLine(e.from)
            /\ e.part = "head" =>
                IF k = Len(stdout)
                THEN pc[e.from] = "writing tail" /\ wlock = e.from
                ELSE /\ stdout[k + 1].part = "tail"
                     /\ stdout[k + 1].from = e.from
                     /\ stdout[k + 1].line = e.line
            /\ e.part = "tail" =>
                /\ k > 1
                /\ stdout[k - 1].part = "head"
                /\ stdout[k - 1].from = e.from

\* two requests of the same wrapped handler are in their logging code at
\* once: one has written the head of its line and holds the lock, the other,
\* with a different line, is about to write
C11_Witness ==
    \E i, j \in Reqs :
        /\ i # j /\ via[i] = via[j]
        /\ pc[i] = "writing tail" /\ pc[j] = "logging"
        /\ pending[i] # pending[j]
        /\ stdout = <<[by |-> via[i], from |-> i, part |-> "head", line |-> pending[i]]>>

\* the log write of request i failed: its handler returned, and nothing of
\* the request is on stdout
LogWriteFailed(i) ==
    /\ pc[i] = "done"
    /\ raised[i] = "none"
    /\ sink \in SinkFailures
    /\ RecordsOf(i) = {}

RecordIsFinal(i) ==
    \A k \in RecordsOf(i) :
        LET l == stdout[k].line
        IN  /\ pc[i] = "done"
            /\ outcome[i] = Returned
            /\ [a \in 1..Len(l.attrs) |-> l.attrs[a].key] = RecordKeys
            /\ l = Handle(logger[via[i]], logHTTPReqInfo(HTTPReqInfo(req[i], mtr[i])))
            /\ AttrValue(l, "code") = mtr[i].Code
            /\ AttrValue(l, "size") = BytesWritten(direct[i])
            /\ AttrValue(l, "duration") = (mtr[i].Duration \div 1000) \div 1000

\* a step taken when a record of request i is on stdout leaves the calls of
\* its handler, the calls that reached the ResponseWriter and its metrics alone
NoCallAfterRecord(i) ==
    RecordsOf(i) # {} =>
        /\ direct'[i] = direct[i]
        /\ wire'[i] = wire[i]
        /\ mtr'[i] = mtr[i]

\* C13: a request has no record on stdout before or while its handler runs;
\* a record on stdout has all eight fields, and its code, size and duration
\* are the request's final values; once the record is on stdout the request
\* makes no further WriteHeader or Write.
C13_RecordOnlyAfterHandlerReturned ==
    /\ [](\A i \in Reqs : pc[i] \in {"idle", "handler"} => RecordsOf(i) = {})
    /\ [](\A i \in Reqs : RecordIsFinal(i))
    /\ [][\A i \in Reqs : NoCallAfterRecord(i)]_vars

\* a handler that set 404, wrote a byte and took 150 ms has returned, and
\* its record carries code 404, size 1 and duration 150
C13_Witness ==
    /\ pc["r1"] = "done"
    /\ direct["r1"] = <<WriteHeaderCall(404), WriteCall(<<"a">>, 1)>>
    /\ mtr["r1"].Duration = 150000000
    /\ \E k \in RecordsOf("r1") :
        /\ AttrValue(stdout[k].line, "code") = 404
        /\ AttrValue(stdout[k].line, "size") = 1
        /\ AttrValue(stdout[k].line, "duration") = 150

====
